---- MODULE Spec2Model ----
(***************************************************************************)
(* Filter declaration and resolution of detect-secrets:                    *)
(*   detect_secrets/core/usage/filters.py                                  *)
(*                                                                         *)
(* Two state machines share this module.                                   *)
(*   SpecValidate  the argparse type-callback valid_looking_paths, applied *)
(*                 to one reference string.                                *)
(*   Spec, SpecExclude, SpecBootstrap                                      *)
(*                 parse_args, called repeatedly on the process-wide       *)
(*                 filter registry; the three differ only in the set the   *)
(*                 argument namespace is drawn from.                       *)
(*                                                                         *)
(* A Python str is a sequence of one-character strings.                    *)
(***************************************************************************)
EXTENDS Integers, Sequences, FiniteSets, Bags, TLC

VARIABLES
    filters,       \* get_settings().filters: identifier -> parameter dict
    args,          \* the argparse.Namespace of the current call, as the call left it
    env,           \* what the optional filter modules and torch answer
    before,        \* the registry when the current call was entered
    raised,        \* the exception the current call ended with
    warnings,      \* bag of the names log.warning was called with
    initCalls,     \* the initialize(...) calls of the current call, in order
    start_method,  \* multiprocessing's process-wide start method
    pc,            \* "idle" | "returned" | "raised"
    path,          \* valid_looking_paths: its argument
    vresult        \* valid_looking_paths: what it returned or raised

vars == <<filters, args, env, before, raised, warnings, initCalls,
          start_method, pc, path, vresult>>

(***************************************************************************)
(* Bounds.                                                                 *)
(***************************************************************************)
\* longest reference string handed to valid_looking_paths (the file://
\* prefix of an explicit reference not counted)
MaxLen == 6
\* most --disable-filter occurrences in one call
MaxDisable == 2
\* most --filter occurrences in one call
MaxFilter == 2

(***************************************************************************)
(* Python str helpers.                                                     *)
(***************************************************************************)
Range(s) == {s[i] : i \in DOMAIN s}

Drop(s, n) == SubSeq(s, n + 1, Len(s))

StartsWith(s, p) == Len(s) >= Len(p) /\ SubSeq(s, 1, Len(p)) = p

\* str.find: 1-based index of the first occurrence of sub in s, 0 when absent
Find(s, sub) ==
    LET hits == {i \in 1..(Len(s) - Len(sub) + 1) : SubSeq(s, i, i + Len(sub) - 1) = sub}
    IN  IF hits = {} THEN 0 ELSE CHOOSE i \in hits : \A j \in hits : i <= j

\* str.rfind
RFind(s, sub) ==
    LET hits == {i \in 1..(Len(s) - Len(sub) + 1) : SubSeq(s, i, i + Len(sub) - 1) = sub}
    IN  IF hits = {} THEN 0 ELSE CHOOSE i \in hits : \A j \in hits : i >= j

\* sub in s
Contains(s, sub) == Find(s, sub) # 0

\* str.split(sep): non-overlapping occurrences, left to right
RECURSIVE Split(_, _)
Split(s, sep) ==
    LET i == Find(s, sep)
    IN  IF i = 0 THEN <<s>>
        ELSE <<SubSeq(s, 1, i - 1)>> \o Split(Drop(s, i + Len(sep) - 1), sep)

DELIM == <<":", ":">>
FILE_PREFIX == <<"f", "i", "l", "e", ":", "/", "/">>
FILE == <<"f", "i", "l", "e">>

(***************************************************************************)
(* urllib.parse.urlparse, as far as the callers read it: scheme and path.  *)
(***************************************************************************)
AsciiLower == {"a", "b", "c", "d", "e", "f", "g", "h", "i", "j", "k", "l", "m",
               "n", "o", "p", "q", "r", "s", "t", "u", "v", "w", "x", "y", "z"}
AsciiUpper == {"C", "F"}
Digits == {"0", "1", "2", "3", "4", "5", "6", "7", "8", "9"}
SchemeChars == AsciiLower \cup AsciiUpper \cup Digits \cup {"+", "-", "."}

LowerChar(c) == IF c = "C" THEN "c" ELSE IF c = "F" THEN "f" ELSE c
Lower(s) == [i \in DOMAIN s |-> LowerChar(s[i])]

\* first index >= from of a character of set cs, Len(s) + 1 when none
FirstOf(s, cs, from) ==
    LET hits == {i \in from..Len(s) : s[i] \in cs}
    IN  IF hits = {} THEN Len(s) + 1 ELSE CHOOSE i \in hits : \A j \in hits : i <= j

urlparse(url) ==
    LET i == Find(url, <<":">>)
        hasScheme == /\ i > 1
                     /\ url[1] \in AsciiLower \cup AsciiUpper
                     /\ \A k \in 1..(i - 1) : url[k] \in SchemeChars
        scheme == IF hasScheme THEN Lower(SubSeq(url, 1, i - 1)) ELSE <<>>
        rest == IF hasScheme THEN Drop(url, i) ELSE url
        hasNetloc == StartsWith(rest, <<"/", "/">>)
        delim == FirstOf(rest, {"/", "?", "#"}, 3)
        netloc == IF hasNetloc THEN SubSeq(rest, 3, delim - 1) ELSE <<>>
        rest2 == IF hasNetloc THEN Drop(rest, delim - 1) ELSE rest
        h == Find(rest2, <<"#">>)
        rest3 == IF h = 0 THEN rest2 ELSE SubSeq(rest2, 1, h - 1)
        q == Find(rest3, <<"?">>)
        pth == IF q = 0 THEN rest3 ELSE SubSeq(rest3, 1, q - 1)
    IN  [scheme |-> scheme, netloc |-> netloc, path |-> pth]

(***************************************************************************)
(* The file system and the importable Python code the references point at. *)
(***************************************************************************)
\* the paths os.path.isfile answers True for
ExistingFiles == {<<"d", ".", "d">>, <<"d", "/", "d">>, <<"d", "/", "x">>}
isfile(p) == p \in ExistingFiles

(***************************************************************************)
(* _add_custom_filters.valid_looking_paths                                 *)
(***************************************************************************)
\* an exception: its message template and the strings formatted into it
NoError == [msg |-> "", subject |-> <<>>]
ArgumentTypeError(msg, subject) == [msg |-> msg, subject |-> subject]

MISSING_SYMBOL == "Did not specify function name for imported file."
NOT_A_FILE == "is not a valid file."
NOT_A_FILTER_PATH == "is not a valid filter path."

\* components = parts.path.split('::')
vlp_components(parts) == Split(parts.path, DELIM)

valid_looking_paths(p0) ==
    LET parts0 == urlparse(p0)
        reinterpret == parts0.scheme = <<>> /\ Contains(p0, DELIM)
        p == IF reinterpret THEN FILE_PREFIX \o p0 ELSE p0
        parts == IF reinterpret THEN urlparse(p) ELSE parts0
        components == vlp_components(parts)
        file_path == Split(Drop(p, Len(FILE_PREFIX)), DELIM)[1]
    IN  IF parts.scheme = FILE
        THEN IF Len(components) # 2
             THEN [ok |-> FALSE, value |-> <<>>, error |-> ArgumentTypeError(MISSING_SYMBOL, <<>>)]
             ELSE IF ~isfile(file_path)
                  THEN [ok |-> FALSE, value |-> <<>>,
                        error |-> ArgumentTypeError(NOT_A_FILE, <<file_path>>)]
                  ELSE [ok |-> TRUE, value |-> p, error |-> NoError]
        ELSE IF parts.scheme # <<>>
             THEN [ok |-> FALSE, value |-> <<>>,
                   error |-> ArgumentTypeError(NOT_A_FILTER_PATH, <<p>>)]
             ELSE [ok |-> TRUE, value |-> p, error |-> NoError]

(***************************************************************************)
(* Python values, dicts and truthiness.                                    *)
(* A value of an option or of a filter parameter is a record: its type and *)
(* one field per type. A dict is a function from its keys.                 *)
(***************************************************************************)
None == [t |-> "None", n |-> 0, s |-> "", l |-> <<>>]
Num(n) == [t |-> "num", n |-> n, s |-> "", l |-> <<>>]
Str(s) == [t |-> "str", n |-> 0, s |-> s, l |-> <<>>]
List(l) == [t |-> "list", n |-> 0, s |-> "", l |-> l]

\* bool(v)
Truthy(v) ==
    \/ v.t = "num" /\ v.n # 0
    \/ v.t = "str" /\ v.s # ""
    \/ v.t = "list" /\ v.l # <<>>

EmptyDict == [k \in {} |-> None]
\* d[k] = v
SetItem(d, k, v) == [x \in DOMAIN d \cup {k} |-> IF x = k THEN v ELSE d[x]]

\* [entry for item in xs for entry in item]
RECURSIVE Flatten(_)
Flatten(xs) == IF xs = <<>> THEN <<>> ELSE Head(xs) \o Flatten(Tail(xs))

(***************************************************************************)
(* Identifiers of the built-in filters parse_args registers.               *)
(***************************************************************************)
SHOULD_EXCLUDE_LINE == "detect_secrets.filters.regex.should_exclude_line"
SHOULD_EXCLUDE_FILE == "detect_secrets.filters.regex.should_exclude_file"
SHOULD_EXCLUDE_SECRET == "detect_secrets.filters.regex.should_exclude_secret"
VERIFICATION_FILTER ==
    "detect_secrets.filters.common.is_ignored_due_to_verification_policies"

\* detect_secrets.constants.VerifiedResult: the rank (.value) of each level
VerifiedResult == [UNVERIFIED |-> 1, VERIFIED_FALSE |-> 2, VERIFIED_TRUE |-> 3]

(***************************************************************************)
(* The custom filter references of the model and the code they point at.   *)
(***************************************************************************)
REF_FUNCTION == "m.f"
REF_CLASS == "m.C"
REF_NO_ATTR == "m.z"
REF_FILE_CLASS == "file://d/x::C"

FilterRefs == {REF_FUNCTION, REF_CLASS, REF_NO_ATTR, REF_FILE_CLASS, VERIFICATION_FILTER}

\* the characters of each reference
Chars(ref) ==
    CASE ref = REF_FUNCTION -> <<"m", ".", "f">>
      [] ref = REF_CLASS -> <<"m", ".", "C">>
      [] ref = REF_NO_ATTR -> <<"m", ".", "z">>
      [] ref = REF_FILE_CLASS ->
            <<"f", "i", "l", "e", ":", "/", "/", "d", "/", "x", ":", ":", "C">>
      [] ref = VERIFICATION_FILTER ->
            <<"d", "e", "t", "e", "c", "t", "_", "s", "e", "c", "r", "e", "t", "s", ".", "f",
              "i", "l", "t", "e", "r", "s", ".", "c", "o", "m", "m", "o", "n", ".", "i", "s",
              "_", "i", "g", "n", "o", "r", "e", "d", "_", "d", "u", "e", "_", "t", "o", "_",
              "v", "e", "r", "i", "f", "i", "c", "a", "t", "i", "o", "n", "_", "p", "o", "l",
              "i", "c", "i", "e", "s">>

\* importlib.import_module: the importable modules, each with its attributes
\* and what inspect.isfunction answers for them
FILTERS_COMMON ==
    <<"d", "e", "t", "e", "c", "t", "_", "s", "e", "c", "r", "e", "t", "s", ".", "f",
      "i", "l", "t", "e", "r", "s", ".", "c", "o", "m", "m", "o", "n">>
IS_IGNORED ==
    <<"i", "s", "_", "i", "g", "n", "o", "r", "e", "d", "_", "d", "u", "e", "_", "t",
      "o", "_", "v", "e", "r", "i", "f", "i", "c", "a", "t", "i", "o", "n", "_", "p",
      "o", "l", "i", "c", "i", "e", "s">>
Modules == {<<"m">>, FILTERS_COMMON}
ModuleAttrs(module_path) ==
    IF module_path = <<"m">>
    THEN {[name |-> <<"f">>, isfunction |-> TRUE], [name |-> <<"C">>, isfunction |-> FALSE]}
    ELSE IF module_path = FILTERS_COMMON
         THEN {[name |-> IS_IGNORED, isfunction |-> TRUE]}
         ELSE {}

\* detect_secrets.util.importlib.import_file_as_module: the files that load,
\* each with its attributes
PythonFiles == {<<"d", "/", "x">>}
FileAttrs(file_path) ==
    IF file_path = <<"d", "/", "x">>
    THEN {[name |-> <<"f">>, isfunction |-> TRUE], [name |-> <<"C">>, isfunction |-> FALSE]}
    ELSE {}

(***************************************************************************)
(* _raise_if_custom_filter_path_is_invalid: the exception it raises,       *)
(* NoError when it returns.                                                *)
(***************************************************************************)
INVALID_MODULE_PATH == "Invalid Python module path for custom filter."
CANNOT_IMPORT == "Cannot import as custom filter."
NO_FILTER_FUNCTION == "No filter function named found in."
NOT_A_FILTER_FUNCTION == "is not a filter function."
\* an exception parse_args does not turn into an ArgumentTypeError
ValueError == [msg |-> "ValueError", subject |-> <<>>]

\* lines 250-270: the reference has no scheme
resolve_namespaced(p) ==
    LET dot == RFind(p, <<".">>)
        module_path == SubSeq(p, 1, dot - 1)
        function_name == Drop(p, dot)
        found == {a \in ModuleAttrs(module_path) : a.name = function_name}
    IN  IF dot = 0 THEN ArgumentTypeError(INVALID_MODULE_PATH, <<>>)
        ELSE IF module_path = <<>> THEN ValueError
        ELSE IF module_path \notin Modules THEN ArgumentTypeError(CANNOT_IMPORT, <<p>>)
        ELSE IF found = {}
             THEN ArgumentTypeError(NO_FILTER_FUNCTION, <<function_name, module_path>>)
        ELSE IF \E a \in found : ~a.isfunction
             THEN ArgumentTypeError(NOT_A_FILTER_FUNCTION, <<p>>)
        ELSE NoError

\* lines 272-287: the reference has the file scheme
resolve_file(p) ==
    LET pieces == Split(Drop(p, Len(FILE_PREFIX)), DELIM)
        file_path == pieces[1]
        function_name == pieces[2]
    IN  IF Len(pieces) # 2 THEN ValueError
        ELSE IF file_path \notin PythonFiles
             THEN ArgumentTypeError(CANNOT_IMPORT, <<file_path>>)
        ELSE IF ~\E a \in FileAttrs(file_path) : a.name = function_name
             THEN ArgumentTypeError(NO_FILTER_FUNCTION, <<function_name, file_path>>)
        ELSE NoError

raise_if_custom_filter_path_is_invalid(p) ==
    LET parts == urlparse(p)
    IN  IF parts.scheme = <<>> THEN resolve_namespaced(p)
        ELSE IF parts.scheme = FILE THEN resolve_file(p)
        ELSE NoError

(***************************************************************************)
(* parse_args, step by step. Each step maps the registry it finds to the   *)
(* registry it leaves.                                                     *)
(***************************************************************************)
\* Settings.disable_filters(*names): drops every listed identifier, present or not
disable_filters(reg, names) == [k \in DOMAIN reg \ Range(names) |-> reg[k]]

\* registers the group whether or not it is empty
mut_exclude_entry_unguarded(reg, id, group) ==
    SetItem(reg, id, SetItem(EmptyDict, "pattern", group))

\* lines 157-170: one regex filter per truthy exclude group
exclude_entry(reg, id, group) ==
    IF Truthy(group) THEN SetItem(reg, id, SetItem(EmptyDict, "pattern", group)) ELSE reg

register_excludes(reg, a) ==
    exclude_entry(
        exclude_entry(
            exclude_entry(reg, SHOULD_EXCLUDE_LINE, a.exclude_lines),
            SHOULD_EXCLUDE_FILE, a.exclude_files),
        SHOULD_EXCLUDE_SECRET, a.exclude_secrets)

\* kwargs[k] = v if v is truthy
kwarg(kwargs, k, v) == IF Truthy(v) THEN SetItem(kwargs, k, v) ELSE kwargs

\* lines 172-176
wordlist_calls(a, e) ==
    IF e.wordlist_enabled /\ Truthy(a.word_list_file)
    THEN <<[filter |-> "wordlist", positional |-> <<a.word_list_file>>, kwargs |-> EmptyDict]>>
    ELSE <<>>

\* lines 178-186
gibberish_calls(a, e) ==
    IF e.gibberish_enabled
    THEN <<[filter |-> "gibberish", positional |-> <<>>,
            kwargs |-> kwarg(kwarg(EmptyDict, "model_path", a.gibberish_model_file),
                             "limit", a.gibberish_limit)]>>
    ELSE <<>>

\* lines 188-209
classifier_calls(a, e) ==
    IF e.classifier_ready
    THEN <<[filter |-> "classifier", positional |-> <<>>,
            kwargs |-> kwarg(kwarg(kwarg(EmptyDict, "huggingface_model", a.huggingface_model),
                                   "threshold", a.threshold),
                             "huggingface_token", a.huggingface_token)]>>
    ELSE <<>>

\* lines 201-204: args.num_cores
classifier_num_cores(a, e) ==
    IF e.classifier_ready THEN (IF e.cuda THEN <<3>> ELSE <<1>>) ELSE a.num_cores

\* lines 211-224
apply_verification(reg, a) ==
    IF ~a.no_verify
    THEN SetItem(reg, VERIFICATION_FILTER,
                 SetItem(EmptyDict, "min_level",
                         Num(IF a.only_verified THEN VerifiedResult.VERIFIED_TRUE
                             ELSE VerifiedResult.UNVERIFIED)))
    ELSE disable_filters(reg, <<VERIFICATION_FILTER>>)

\* iterates the flattened list instead of the set built from it
mut_redundant_warnings_per_occurrence(reg, names) ==
    [n \in Range(names) \ DOMAIN reg |-> Cardinality({i \in DOMAIN names : names[i] = n})]

\* lines 230-232: the names log.warning is called with
redundant_warnings(reg, names) == SetToBag(Range(names) \ DOMAIN reg)

\* lines 226-234
apply_disable(reg, a) ==
    IF a.disable_filter # <<>>
    THEN LET flat == Flatten(a.disable_filter)
         IN  [filters |-> disable_filters(reg, flat),
              warnings |-> redundant_warnings(reg, flat),
              disable_filter |-> flat]
    ELSE [filters |-> reg, warnings |-> EmptyBag, disable_filter |-> a.disable_filter]

\* line 242 for each reference of the model
Resolution == [ref \in FilterRefs |-> raise_if_custom_filter_path_is_invalid(Chars(ref))]

\* a second registration of an identifier marks its entry
mut_register_item_marks_duplicate(reg, item) ==
    IF item \in DOMAIN reg
    THEN SetItem(reg, item, SetItem(reg[item], "duplicate", Num(1)))
    ELSE SetItem(reg, item, EmptyDict)

\* line 243
register_item(reg, item) == SetItem(reg, item, EmptyDict)

\* lines 241-243: the loop, left at the first item that raises
RECURSIVE register_custom(_, _)
register_custom(reg, items) ==
    IF items = <<>> THEN [filters |-> reg, raised |-> NoError]
    ELSE IF Resolution[Head(items)] # NoError
         THEN [filters |-> reg, raised |-> Resolution[Head(items)]]
         ELSE register_custom(register_item(reg, Head(items)), Tail(items))

\* lines 236-243
apply_custom(reg, a) ==
    IF a.filter # <<>>
    THEN LET flat == Flatten(a.filter)
             out == register_custom(reg, flat)
         IN  [filters |-> out.filters, raised |-> out.raised, filter |-> flat]
    ELSE [filters |-> reg, raised |-> NoError, filter |-> a.filter]

(***************************************************************************)
(* The namespaces parse_args is called with.                               *)
(***************************************************************************)
NoEnv == [wordlist_enabled |-> FALSE, gibberish_enabled |-> FALSE,
          classifier_ready |-> FALSE, cuda |-> FALSE]

\* argparse's defaults: every option absent
NoArgs ==
    [exclude_lines |-> None, exclude_files |-> None, exclude_secrets |-> None,
     word_list_file |-> None, gibberish_model_file |-> None, gibberish_limit |-> None,
     huggingface_model |-> None, threshold |-> None, huggingface_token |-> None,
     no_verify |-> FALSE, only_verified |-> FALSE,
     disable_filter |-> <<>>, filter |-> <<>>, num_cores |-> <<>>]

\* sequences over S of length at most n
SeqsUpTo(S, n) == UNION {[1..k -> S] : k \in 0..n}

\* nargs=1 with action='append': one one-element list per occurrence
Appended(S, n) == {[i \in DOMAIN xs |-> <<xs[i]>>] : xs \in SeqsUpTo(S, n)}

DisableNames == {VERIFICATION_FILTER, REF_FUNCTION}

\* registration: verify flags, disable list, custom filters, one exclude group
RegistryArgs ==
    {[NoArgs EXCEPT !.exclude_files = xf, !.no_verify = nv, !.only_verified = ov,
                    !.disable_filter = d, !.filter = f] :
        xf \in {None, List(<<"\\.lock$">>)}, nv \in BOOLEAN, ov \in BOOLEAN,
        d \in Appended(DisableNames, MaxDisable), f \in Appended(FilterRefs, MaxFilter)}

\* exclude patterns and verify flags only
PatternLists == {None, List(<<>>), List(<<"\\.lock$">>), List(<<"a", "b">>)}
ExcludeArgs ==
    {[NoArgs EXCEPT !.exclude_lines = xl, !.exclude_files = xf, !.exclude_secrets = xs,
                    !.no_verify = nv, !.only_verified = ov] :
        xl \in PatternLists, xf \in PatternLists, xs \in PatternLists,
        nv \in BOOLEAN, ov \in BOOLEAN}

\* the optional filters' options
BootstrapArgs ==
    {[NoArgs EXCEPT !.word_list_file = w, !.gibberish_model_file = g, !.gibberish_limit = gl,
                    !.huggingface_model = hm, !.threshold = th, !.huggingface_token = ht] :
        w \in {None, Str("words.txt")}, g \in {None, Str("model.rnn")},
        gl \in {None, Num(0), Num(3)}, hm \in {None, Str("org/model")},
        th \in {None, Num(0), Num(1)}, ht \in {None, Str("hf_token")}}
Envs == [wordlist_enabled : BOOLEAN, gibberish_enabled : BOOLEAN,
         classifier_ready : BOOLEAN, cuda : BOOLEAN]

(***************************************************************************)
(* Actions.                                                                *)
(***************************************************************************)
NoResult == [ok |-> TRUE, value |-> <<>>, error |-> NoError]

InitRegistry ==
    /\ filters = EmptyDict
    /\ args = NoArgs
    /\ env = NoEnv
    /\ before = EmptyDict
    /\ raised = NoError
    /\ warnings = EmptyBag
    /\ initCalls = <<>>
    /\ start_method = "default"
    /\ pc = "idle"

\* one call parse_args(a) with the optional modules answering e
parse_args(a, e) ==
    /\ pc = "idle"
    /\ \E d \in {apply_disable(apply_verification(register_excludes(filters, a), a), a)} :
         \E c \in {apply_custom(d.filters, a)} :
           /\ filters' = c.filters
           /\ warnings' = d.warnings
           /\ raised' = c.raised
           /\ pc' = IF c.raised = NoError THEN "returned" ELSE "raised"
           /\ args' = [a EXCEPT !.disable_filter = d.disable_filter, !.filter = c.filter,
                                !.num_cores = classifier_num_cores(a, e)]
    /\ initCalls' = wordlist_calls(a, e) \o gibberish_calls(a, e) \o classifier_calls(a, e)
    /\ start_method' = IF e.classifier_ready THEN "spawn" ELSE start_method
    /\ env' = e
    /\ before' = filters
    /\ UNCHANGED <<path, vresult>>

\* the caller is done with the namespace and with what the call reported
Discard ==
    /\ pc # "idle"
    /\ pc' = "idle"
    /\ args' = NoArgs
    /\ env' = NoEnv
    /\ before' = EmptyDict
    /\ raised' = NoError
    /\ warnings' = EmptyBag
    /\ initCalls' = <<>>
    /\ UNCHANGED <<filters, start_method, path, vresult>>

ParseArgs == pc = "idle" /\ \E a \in RegistryArgs : parse_args(a, NoEnv)
ParseExcludeArgs == pc = "idle" /\ \E a \in ExcludeArgs : parse_args(a, NoEnv)
ParseBootstrapArgs == pc = "idle" /\ \E a \in BootstrapArgs, e \in Envs : parse_args(a, e)

Init == InitRegistry /\ path = <<>> /\ vresult = NoResult
Next == ParseArgs \/ Discard
Spec == Init /\ [][Next]_vars

NextExclude == ParseExcludeArgs \/ Discard
SpecExclude == Init /\ [][NextExclude]_vars

NextBootstrap == ParseBootstrapArgs \/ Discard
SpecBootstrap == Init /\ [][NextBootstrap]_vars

(***************************************************************************)
(* valid_looking_paths on one reference string.                            *)
(***************************************************************************)
Alphabet == {"d", ".", "/", ":", "?"}
Bodies == SeqsUpTo(Alphabet, MaxLen)
\* the reference as typed: with or without the explicit file:// scheme
References == Bodies \cup {FILE_PREFIX \o b : b \in Bodies}

InitValidate ==
    /\ InitRegistry
    /\ path \in References
    /\ vresult = NoResult
    /\ pc = "idle"

Validate ==
    /\ pc = "idle"
    /\ vresult' = valid_looking_paths(path)
    /\ pc' = IF vresult'.ok THEN "returned" ELSE "raised"
    /\ UNCHANGED <<filters, args, env, before, raised, warnings, initCalls,
                   start_method, path>>

NextValidate == Validate
SpecValidate == InitValidate /\ [][NextValidate]_vars

(***************************************************************************)
(* Properties.                                                             *)
(***************************************************************************)
Called == pc \in {"returned", "raised"}
Ids(reg) == DOMAIN reg

\* the non-empty exclude groups of a namespace, by the identifier each registers
ExcludeGroups(a) ==
    {g \in {[id |-> SHOULD_EXCLUDE_LINE, group |-> a.exclude_lines],
            [id |-> SHOULD_EXCLUDE_FILE, group |-> a.exclude_files],
            [id |-> SHOULD_EXCLUDE_SECRET, group |-> a.exclude_secrets]} :
        g.group.t = "list" /\ Len(g.group.l) > 0}

NoOptionalOptions(a) ==
    /\ a.word_list_file = None /\ a.gibberish_model_file = None /\ a.gibberish_limit = None
    /\ a.huggingface_model = None /\ a.threshold = None /\ a.huggingface_token = None

\* C1: when a custom filter reference fails resolution, parse_args raises and
\* the registry is exactly what it was when the call was entered.
C1_RegistryUnchangedOnFailure == pc = "raised" => filters = before

\* C2: whenever no_verify is set, the registry holds no verification filter
\* entry after parse_args returns.
C2_NoVerifyLeavesNoVerificationEntry ==
    (pc = "returned" /\ args.no_verify) => VERIFICATION_FILTER \notin Ids(filters)

\* C3: from an empty registry, with exclude patterns as the only options, the
\* registry after parse_args is exactly one regex entry per non-empty exclude
\* group, its pattern the user's list, plus the verification entry with
\* min_level the rank of UNVERIFIED.
C3_ExcludeOnlyRegistry ==
    (/\ pc = "returned" /\ before = EmptyDict /\ env = NoEnv
     /\ ~args.no_verify /\ ~args.only_verified
     /\ args.disable_filter = <<>> /\ args.filter = <<>> /\ NoOptionalOptions(args))
    => /\ Ids(filters) = {g.id : g \in ExcludeGroups(args)} \cup {VERIFICATION_FILTER}
       /\ \A g \in ExcludeGroups(args) :
             DOMAIN filters[g.id] = {"pattern"} /\ filters[g.id]["pattern"] = g.group
       /\ DOMAIN filters[VERIFICATION_FILTER] = {"min_level"}
       /\ filters[VERIFICATION_FILTER]["min_level"] = Num(VerifiedResult.UNVERIFIED)

\* scenario A: exclude_files = ["\.lock$"] and nothing else, on an empty registry
C3_Witness ==
    /\ pc = "returned" /\ before = EmptyDict
    /\ args = [NoArgs EXCEPT !.exclude_files = List(<<"\\.lock$">>)]
    /\ Ids(filters) = {SHOULD_EXCLUDE_FILE, VERIFICATION_FILTER}

\* the identifiers in the registry when the disable step of the current call ran
IdsAtDisable ==
    IF args.no_verify
    THEN (Ids(before) \cup {g.id : g \in ExcludeGroups(args)}) \ {VERIFICATION_FILTER}
    ELSE Ids(before) \cup {g.id : g \in ExcludeGroups(args)} \cup {VERIFICATION_FILTER}

\* C4: each identifier of the disable list that is not in the registry when the
\* disable step runs is warned about exactly once, however often it is listed;
\* each identifier that is in the registry is not warned about; and the step
\* does not raise.
C4_OneWarningPerRedundantName ==
    Called =>
        /\ \A n \in DisableNames :
              CopiesIn(n, warnings) =
                  IF n \in Range(args.disable_filter) /\ n \notin IdsAtDisable THEN 1 ELSE 0
        /\ BagToSet(warnings) \subseteq DisableNames
        /\ (args.filter = <<>> => pc = "returned")

\* a name listed twice and absent from the registry: one warning
C4_Witness ==
    /\ pc = "returned"
    /\ args.disable_filter = <<REF_FUNCTION, REF_FUNCTION>>
    /\ REF_FUNCTION \notin Ids(before)
    /\ CopiesIn(REF_FUNCTION, warnings) = 1

\* a list without its repeated elements, first occurrences kept
Dedup(xs) ==
    LET keep == {i \in DOMAIN xs : \A j \in 1..(i - 1) : xs[j] # xs[i]}
        f[i \in 0..Len(xs)] == IF i = 0 THEN <<>>
                               ELSE IF i \in keep THEN Append(f[i - 1], xs[i]) ELSE f[i - 1]
    IN  f[Len(xs)]
\* a flattened option back in the shape argparse appends it in
Nest(xs) == [i \in DOMAIN xs |-> <<xs[i]>>]

\* what the same call leaves when every identifier is listed once
OnceOnly ==
    LET a == [args EXCEPT !.disable_filter = Nest(Dedup(args.disable_filter)),
                          !.filter = Nest(Dedup(args.filter))]
    IN  apply_custom(
            apply_disable(apply_verification(register_excludes(before, a), a), a).filters, a)

\* C7: a call that lists an identifier twice, in the disable list or in the
\* filter list, leaves the registry the same call leaves with the identifier
\* listed once; a custom filter listed twice has one entry, with no parameters.
C7_RepeatedIdentifierIdempotent ==
    Called =>
        /\ filters = OnceOnly.filters
        /\ pc = "returned" =>
              \A ref \in Range(args.filter) : ref \in Ids(filters) /\ filters[ref] = EmptyDict

C7_Witness ==
    /\ pc = "returned"
    /\ args.filter = <<REF_FUNCTION, REF_FUNCTION>>
    /\ args.disable_filter = <<VERIFICATION_FILTER, VERIFICATION_FILTER>>
    /\ VERIFICATION_FILTER \in Ids(before)
    /\ filters[REF_FUNCTION] = EmptyDict

\* the parameters of a filter the user supplied, as a dict
Supplied(options) == [k \in {o \in DOMAIN options : options[o] # None} |-> options[k]]

CallsOf(name) == {i \in DOMAIN initCalls : initCalls[i].filter = name}

\* C8: each optional filter is initialized at most once per call, only when
\* ready, with exactly the parameters the user supplied: all of them, with
\* their values, and no other.
C8_InitializeWithSuppliedParameters ==
    pc = "returned" =>
        /\ \A name \in {"wordlist", "gibberish", "classifier"} : Cardinality(CallsOf(name)) <= 1
        /\ \A i \in CallsOf("wordlist") :
              /\ env.wordlist_enabled
              /\ initCalls[i].positional = <<args.word_list_file>>
              /\ initCalls[i].kwargs = EmptyDict
        /\ \A i \in CallsOf("gibberish") :
              /\ env.gibberish_enabled
              /\ initCalls[i].kwargs =
                    Supplied([model_path |-> args.gibberish_model_file,
                              limit |-> args.gibberish_limit])
        /\ \A i \in CallsOf("classifier") :
              /\ env.classifier_ready
              /\ initCalls[i].kwargs =
                    Supplied([huggingface_model |-> args.huggingface_model,
                              threshold |-> args.threshold,
                              huggingface_token |-> args.huggingface_token])

\* the references of the model whose symbol exists and is not a function
NonFunctionRefs == {REF_CLASS, REF_FILE_CLASS}

\* C9: a custom filter reference whose symbol exists but is not a function is
\* rejected with a validation error and is not registered, in both forms.
C9_NonFunctionRejected ==
    /\ \A ref \in NonFunctionRefs : ref \notin Ids(filters)
    /\ (pc = "returned" => Range(args.filter) \cap NonFunctionRefs = {})

\* C10: after parse_args returns without error, no identifier of the disable
\* list is in the registry, whatever the other options of the call.
C10_DisabledIdentifiersAbsent ==
    pc = "returned" => Range(args.disable_filter) \cap Ids(filters) = {}

(***************************************************************************)
(* Properties of valid_looking_paths.                                      *)
(***************************************************************************)
Validated == pc \in {"returned", "raised"}

\* number of '::' delimiters of a string
DelimCount(str) == Len(Split(str, DELIM)) - 1

\* explicit file:// scheme, or no scheme and a '::'
IsLocalFileReference(str) ==
    \/ StartsWith(str, FILE_PREFIX)
    \/ urlparse(str).scheme = <<>> /\ Contains(str, DELIM)

\* the reference without its explicit file:// scheme
Body(str) == IF StartsWith(str, FILE_PREFIX) THEN Drop(str, Len(FILE_PREFIX)) ELSE str

\* a file name: starts with a letter, then letters, dots and directory separators
IsFileName(str) ==
    /\ str # <<>>
    /\ str[1] \in AsciiLower
    /\ Range(str) \subseteq AsciiLower \cup {".", "/"}

\* a symbol name: letters
IsSymbolName(str) == str # <<>> /\ Range(str) \subseteq AsciiLower

\* '<file name>::<symbol name>', more '::<symbol name>' allowed
NamesFileAndSymbol(str) ==
    LET pieces == Split(Body(str), DELIM)
    IN  /\ Len(pieces) >= 2
        /\ IsFileName(pieces[1])
        /\ \A i \in 2..Len(pieces) : IsSymbolName(pieces[i])

\* C5: a local-file reference fails with the missing-symbol error when its
\* number of '::' delimiters is not 1, and never fails with it when the number
\* is 1. Stated for the references made of a file name and symbol names.
C5_MissingSymbolIffDelimCountNotOne ==
    (Validated /\ IsLocalFileReference(path) /\ NamesFileAndSymbol(path)) =>
        /\ DelimCount(path) # 1 => (~vresult.ok /\ vresult.error.msg = MISSING_SYMBOL)
        /\ DelimCount(path) = 1 => vresult.error.msg # MISSING_SYMBOL

\* C6: '<path>::<symbol>' with <path> not an existing file fails with
\* '<path> is not a valid file', whatever <path> and <symbol> are. Stated for
\* <path> a file name and <symbol> a symbol name.
C6_NotAValidFile ==
    (/\ Validated
     /\ ~StartsWith(path, FILE_PREFIX)
     /\ DelimCount(path) = 1
     /\ NamesFileAndSymbol(path)
     /\ ~isfile(Split(path, DELIM)[1]))
    => vresult = [ok |-> FALSE, value |-> <<>>,
                  error |-> ArgumentTypeError(NOT_A_FILE, <<Split(path, DELIM)[1]>>)]

====
